---- MODULE Spec2Model ----
(***************************************************************************)
(* Changelog document model of smart_changelog/updater.py.                 *)
(*                                                                         *)
(* Text is a sequence of tokens.  A token is a run of characters that the  *)
(* code never looks inside; every character the code's patterns tell       *)
(* apart ("#", " ", "\n", "(", "_") is a token of its own, so that         *)
(* substring search, prefix tests and stripping work on token sequences    *)
(* exactly as they work on the characters of the Python strings.           *)
(***************************************************************************)
EXTENDS Integers, Sequences, FiniteSets, TLC

VARIABLES doc, pre, call, prevCall, version, fresh, nops, rt, cz, run

vars == <<doc, pre, call, prevCall, version, fresh, nops, rt, cz, run>>

\* ------------------------------------------------------------------ bounds
MaxOps == 3
MaxRTEntries == 2

\* words of a commit subject
MaxWords == 2

\* invocations of the command in one behaviour
MaxRuns == 2

\* ------------------------------------------------------------------ tokens
NL == "\n"
SP == " "
HASH == "#"
Whitespace == {SP, NL}

\* ------------------------------------------------------------------ str helpers
Take(t, n) == SubSeq(t, 1, n)

Drop(t, n) == SubSeq(t, n + 1, Len(t))

MinOf(S) == CHOOSE x \in S : \A y \in S : x <= y

\* t[p:].startswith(sub), p counted from 1
StartsWithAt(t, p, sub) ==
    /\ p >= 1
    /\ p + Len(sub) - 1 <= Len(t)
    /\ SubSeq(t, p, p + Len(sub) - 1) = sub

StartsWith(t, sub) == StartsWithAt(t, 1, sub)

EndsWith(t, sub) == Len(sub) <= Len(t) /\ StartsWithAt(t, Len(t) - Len(sub) + 1, sub)

\* str.find(sub, from): the first position >= from where sub stands, 0 if none
Find(t, sub, from) ==
    LET ps == {p \in from..(Len(t) - Len(sub) + 1) : StartsWithAt(t, p, sub)}
    IN IF ps = {} THEN 0 ELSE MinOf(ps)

\* sub in t
Contains(t, sub) == Find(t, sub, 1) # 0

RECURSIVE LStripSet(_, _)
LStripSet(t, cs) ==
    IF t # <<>> /\ Head(t) \in cs THEN LStripSet(Tail(t), cs) ELSE t

RECURSIVE RStripSet(_, _)
RStripSet(t, cs) ==
    IF t # <<>> /\ t[Len(t)] \in cs THEN RStripSet(Take(t, Len(t) - 1), cs) ELSE t

StripSet(t, cs) == LStripSet(RStripSet(t, cs), cs)

\* str.strip(), str.lstrip(), str.rstrip()
Strip(t) == StripSet(t, Whitespace)

LStrip(t) == LStripSet(t, Whitespace)

RStrip(t) == RStripSet(t, Whitespace)

\* not line.strip()
IsBlank(t) == Strip(t) = <<>>

\* str.replace(old, new, 1)
ReplaceFirst(t, old, new) ==
    LET p == Find(t, old, 1)
    IN IF p = 0 THEN t ELSE Take(t, p - 1) \o new \o Drop(t, p - 1 + Len(old))

\* str.splitlines(): no last empty line after a final newline
RECURSIVE SplitLines(_)
SplitLines(t) ==
    IF t = <<>> THEN <<>>
    ELSE LET p == Find(t, <<NL>>, 1)
         IN IF p = 0 THEN <<t>>
            ELSE <<Take(t, p - 1)>> \o SplitLines(Drop(t, p))

\* "\n".join(lines)
RECURSIVE JoinLines(_)
JoinLines(lines) ==
    IF lines = <<>> THEN <<>>
    ELSE IF Len(lines) = 1 THEN lines[1]
    ELSE lines[1] \o <<NL>> \o JoinLines(Tail(lines))

\* The end of a lazy (.*?) under DOTALL followed by a lookahead: the first
\* position e >= from where one of the stops stands, or the end of the text (\Z).
LazyEnd(t, from, stops) ==
    MinOf({e \in from..(Len(t) + 1) :
              e = Len(t) + 1 \/ \E s \in stops : StartsWithAt(t, e, s)})

NoMatch == [found |-> FALSE, start |-> 0, end |-> 0]

\* ------------------------------------------------------------------ constants
KEYS == <<"feature", "fix", "change">>

KeySet == {"feature", "fix", "change"}

H2 == <<HASH, HASH, SP>>

H3 == <<HASH, HASH, HASH, SP>>

SECTION_HEADINGS ==
    [k \in KeySet |->
        H3 \o <<CASE k = "feature" -> "New Features"
                  [] k = "fix" -> "Bug Fixes"
                  [] OTHER -> "Changes">>]

SECTION_MARKERS ==
    [k \in KeySet |->
        CASE k = "feature" -> [start |-> <<"<!-- section:feature -->">>,
                               end |-> <<"<!-- /section:feature -->">>]
          [] k = "fix" -> [start |-> <<"<!-- section:fix -->">>,
                           end |-> <<"<!-- /section:fix -->">>]
          [] OTHER -> [start |-> <<"<!-- section:change -->">>,
                       end |-> <<"<!-- /section:change -->">>]]

\* _section_definitions(): heading.replace("### ", "").strip()
SectionDefinition(k) ==
    [key |-> k,
     heading |-> Strip(ReplaceFirst(SECTION_HEADINGS[k], H3, <<>>)),
     start_marker |-> SECTION_MARKERS[k].start,
     end_marker |-> SECTION_MARKERS[k].end]

LUPrefix == "_Last updated:"

US == "_"

\* the texts \d{4}-\d{2}-\d{2} matches
DateTokens == {"2025-01-01", "2025-02-02"}

EmptySections == [k \in KeySet |-> <<>>]

\* ------------------------------------------------------------------ render
\* _normalise_block
NormaliseBlock(block) == StripSet(block, {NL}) \o <<NL>>

\* the lines one section contributes in _render_version_block_fallback
SectionLines(k, entries) ==
    LET d == SectionDefinition(k)
    IN <<d.start_marker>>
       \o (IF entries # <<>>
           THEN <<H3 \o d.heading, <<>>>> \o entries \o << <<>> >>
           ELSE <<>>)
       \o <<d.end_marker, <<>>>>

RenderVersionBlockFallback(ver, date_str, sections) ==
    JoinLines(<<H2 \o ver, <<LUPrefix, SP>> \o date_str \o <<US>>, <<>>>>
              \o SectionLines(KEYS[1], sections[KEYS[1]])
              \o SectionLines(KEYS[2], sections[KEYS[2]])
              \o SectionLines(KEYS[3], sections[KEYS[3]]))

RenderVersionBlock(ver, date_str, sections) ==
    NormaliseBlock(RenderVersionBlockFallback(ver, date_str, sections))

\* ------------------------------------------------------------------ parse
RECURSIVE DropLeadingBlank(_)
DropLeadingBlank(lines) ==
    IF lines # <<>> /\ IsBlank(Head(lines)) THEN DropLeadingBlank(Tail(lines)) ELSE lines

RECURSIVE DropTrailingBlank(_)
DropTrailingBlank(lines) ==
    IF lines # <<>> /\ IsBlank(lines[Len(lines)])
    THEN DropTrailingBlank(Take(lines, Len(lines) - 1)) ELSE lines

RECURSIVE NonBlankRStripped(_)
NonBlankRStripped(lines) ==
    IF lines = <<>> THEN <<>>
    ELSE (IF IsBlank(Head(lines)) THEN <<>> ELSE <<RStrip(Head(lines))>>)
         \o NonBlankRStripped(Tail(lines))

\* DropHeadingLine that keeps the heading line
DropHeadingLineKeep(lines) == lines

\* _strip_non_entry_lines: if trimmed and trimmed[0].lstrip().startswith("###")
DropHeadingLine(lines) ==
    IF lines # <<>> /\ StartsWith(LStrip(Head(lines)), <<HASH, HASH, HASH>>)
    THEN Tail(lines) ELSE lines

\* _strip_non_entry_lines
StripNonEntryLines(lines) ==
    NonBlankRStripped(
        DropTrailingBlank(DropLeadingBlank(DropHeadingLine(DropLeadingBlank(lines)))))

\* _extract_entries_from_segment
ExtractEntriesFromSegment(segment) == StripNonEntryLines(SplitLines(segment))

\* _extract_entries_from_heading: heading\n(.*?)(?=\n### |\n## |\Z), DOTALL
ExtractEntriesFromHeading(block, heading) ==
    LET s == Find(block, heading \o <<NL>>, 1)
        from == s + Len(heading) + 1
        e == LazyEnd(block, from, {<<NL>> \o H3, <<NL>> \o H2})
    IN IF s = 0 THEN <<>>
       ELSE StripNonEntryLines(SplitLines(SubSeq(block, from, e - 1)))

\* re.search(r"_Last updated:\s*(\d{4}-\d{2}-\d{2})_", block): group(1) or ""
RECURSIVE SkipWhitespace(_, _)
SkipWhitespace(t, p) ==
    IF p <= Len(t) /\ t[p] \in Whitespace THEN SkipWhitespace(t, p + 1) ELSE p

DateMatchAt(t, p) ==
    LET q == SkipWhitespace(t, p + 1)
    IN /\ t[p] = LUPrefix
       /\ q + 1 <= Len(t)
       /\ t[q] \in DateTokens
       /\ t[q + 1] = US

\* position of the date token of the first match, 0 if none
DateSearch(t) ==
    LET ps == {p \in 1..Len(t) : DateMatchAt(t, p)}
    IN IF ps = {} THEN 0 ELSE SkipWhitespace(t, MinOf(ps) + 1)

ParseSection(block, k) ==
    LET d == SectionDefinition(k)
        start_idx == Find(block, d.start_marker, 1)
        end_idx == Find(block, d.end_marker, 1)
    IN IF start_idx # 0 /\ end_idx # 0 /\ end_idx > start_idx
       THEN ExtractEntriesFromSegment(
                SubSeq(block, start_idx + Len(d.start_marker), end_idx - 1))
       ELSE ExtractEntriesFromHeading(block, SECTION_HEADINGS[k])

\* _parse_version_block
ParseVersionBlock(block) ==
    LET lines == SplitLines(Strip(block))
        dp == DateSearch(block)
    IN [version |-> IF lines # <<>> /\ StartsWith(lines[1], H2)
                    THEN Strip(Drop(lines[1], 3)) ELSE <<>>,
        date |-> IF dp = 0 THEN <<>> ELSE <<block[dp]>>,
        sections |-> [k \in KeySet |-> ParseSection(block, k)]]

\* ------------------------------------------------------------------ find / replace
\* _find_version_block: (heading\n(?:.*?))(?=\n## |\Z), DOTALL, re.search
FindVersionBlock(content, version_heading) ==
    LET s == Find(content, version_heading \o <<NL>>, 1)
    IN IF s = 0 THEN NoMatch
       ELSE [found |-> TRUE, start |-> s,
             end |-> LazyEnd(content, s + Len(version_heading) + 1, {<<NL>> \o H2})]

\* match.group(1)
Group(content, m) == SubSeq(content, m.start, m.end - 1)

\* _replace_version_block
ReplaceVersionBlock(content, version_heading, new_block) ==
    LET m == FindVersionBlock(content, version_heading)
        existing == NormaliseBlock(Group(content, m))
        replacement == NormaliseBlock(new_block)
    IN IF ~m.found THEN [doc |-> content, changed |-> FALSE]
       ELSE IF existing = replacement THEN [doc |-> content, changed |-> FALSE]
       ELSE [doc |-> Take(content, m.start - 1) \o replacement \o Drop(content, m.end - 1),
             changed |-> TRUE]

\* ------------------------------------------------------------------ entries
\* UpdateContext.render_entry: "- {title} ({ticket}, {author}, {date})"
RenderEntry(ctx) ==
    <<"-", SP>> \o Strip(ctx.title) \o <<SP, "(">> \o ctx.ticket_id \o <<",", SP>>
    \o (IF Strip(ctx.author) = <<>> THEN <<"Unknown">> ELSE Strip(ctx.author))
    \o <<",", SP>> \o ctx.date \o <<")">>

\* the first index of lines whose line contains marker, 0 if none
FirstWithMarker(lines, marker) ==
    LET is == {i \in 1..Len(lines) : Contains(lines[i], marker)}
    IN IF is = {} THEN 0 ELSE MinOf(is)

\* UpsertEntries without the search for the identifier's line: always inserts
UpsertEntriesAlwaysInsert(section_entries, entry, ticket_id) ==
    [same |-> FALSE, entries |-> <<entry>> \o section_entries]

\* the for/else of _upsert_entry_for_version: the new list, or "same" on the
\* early return
UpsertEntries(section_entries, entry, ticket_id) ==
    LET idx == FirstWithMarker(section_entries, <<"(">> \o ticket_id)
    IN IF idx = 0 THEN [same |-> FALSE, entries |-> <<entry>> \o section_entries]
       ELSE IF Strip(section_entries[idx]) = entry
            THEN [same |-> TRUE, entries |-> section_entries]
            ELSE [same |-> FALSE,
                  entries |-> [section_entries EXCEPT ![idx] = entry]]

\* next(key for key, heading in SECTION_HEADINGS.items() if heading == ..., "change")
SectionKey(category_heading) ==
    IF \E k \in KeySet : SECTION_HEADINGS[k] = category_heading
    THEN CHOOSE k \in KeySet : SECTION_HEADINGS[k] = category_heading
    ELSE "change"

\* variant: the block is rebuilt with the target category only
UpsertTargetOnly(content, version_heading, category_heading, entry, ticket_id) ==
    LET version_match == FindVersionBlock(content, version_heading)
        parsed == ParseVersionBlock(Group(content, version_match))
        section_key == SectionKey(category_heading)
        up == UpsertEntries(parsed.sections[section_key], entry, ticket_id)
        sections == [EmptySections EXCEPT ![section_key] = up.entries]
        new_block == RenderVersionBlock(parsed.version, parsed.date, sections)
    IN IF ~version_match.found \/ up.same THEN [doc |-> content, changed |-> FALSE]
       ELSE ReplaceVersionBlock(content, version_heading, new_block)

\* _upsert_entry_for_version
UpsertEntryForVersion(content, version_heading, category_heading, entry, ticket_id) ==
    LET version_match == FindVersionBlock(content, version_heading)
        parsed == ParseVersionBlock(Group(content, version_match))
        section_key == SectionKey(category_heading)
        up == UpsertEntries(parsed.sections[section_key], entry, ticket_id)
        sections == [parsed.sections EXCEPT ![section_key] = up.entries]
        version_value == IF parsed.version # <<>> THEN parsed.version
                         ELSE Strip(ReplaceFirst(version_heading, <<HASH, HASH>>, <<>>))
        new_block == RenderVersionBlock(version_value, parsed.date, sections)
    IN IF ~version_match.found THEN [doc |-> content, changed |-> FALSE]
       ELSE IF up.same THEN [doc |-> content, changed |-> FALSE]
       ELSE ReplaceVersionBlock(content, version_heading, new_block)

\* ------------------------------------------------------------------ ensure
UNRELEASED == H2 \o <<"[Unreleased]">>

TITLE == <<HASH, SP, "Changelog">>

\* ## \[Unreleased\].*?(?=\n## |\Z), DOTALL, re.search
FindUnreleased(content) ==
    LET s == Find(content, UNRELEASED, 1)
    IN IF s = 0 THEN NoMatch
       ELSE [found |-> TRUE, start |-> s,
             end |-> LazyEnd(content, s + Len(UNRELEASED), {<<NL>> \o H2})]

\* re.search(r"^# .*?(\n|\Z)", content): header_match.end(), or 0 without a match
HeaderInsertAt(content) ==
    LET p == Find(content, <<NL>>, 3)
    IN IF ~StartsWith(content, <<HASH, SP>>) THEN 0
       ELSE IF p = 0 THEN Len(content) ELSE p

\* the block _ensure_version_block inserts
NewBlock(version_heading, date_str) ==
    LET ver == Strip(ReplaceFirst(version_heading, <<HASH, HASH>>, <<>>))
        block == RenderVersionBlock(ver, date_str, EmptySections)
    IN IF EndsWith(block, <<NL, NL>>) THEN block ELSE block \o <<NL>>

\* _ensure_version_block
EnsureVersionBlock(content, version_heading, date_str) ==
    LET block == NewBlock(version_heading, date_str)
        um == FindUnreleased(content)
        base == RStrip(content)
        insert_at == HeaderInsertAt(content)
    IN IF FindVersionBlock(content, version_heading).found
       THEN [doc |-> content, created |-> FALSE, path |-> "exists"]
       ELSE IF um.found
       THEN [doc |-> Take(content, um.start - 1) \o block
                     \o LStripSet(Drop(content, um.end - 1), {NL}),
             created |-> TRUE, path |-> "unreleased"]
       ELSE IF Strip(content) = TITLE \/ Strip(content) = <<>>
       THEN [doc |-> IF base = <<>> THEN block ELSE base \o <<NL, NL>> \o block,
             created |-> TRUE, path |-> "append"]
       ELSE [doc |-> Take(content, insert_at) \o <<NL>> \o block \o Drop(content, insert_at),
             created |-> TRUE, path |-> "header"]


\* ------------------------------------------------------------------ last-updated stamp
\* _update_last_updated lines 665-668: the fallback branches, taken when the date
\* pattern does not match in the block
StampFallback(block, version_heading, date_str) ==
    LET lines == SplitLines(block)
        stamp == <<LUPrefix, SP>> \o date_str \o <<US>>
    IN IF Len(lines) >= 2 /\ StartsWith(lines[2], <<LUPrefix>>)
       THEN JoinLines([lines EXCEPT ![2] = stamp])
       ELSE ReplaceFirst(block, version_heading, version_heading \o <<NL>> \o stamp)

\* _update_last_updated lines 657-668: the block with its stamp set to date_str
StampedBlock(block, version_heading, date_str) ==
    LET dp == DateSearch(block)
    IN IF dp # 0
       THEN Take(block, dp - 1) \o date_str \o Drop(block, dp)
       ELSE StampFallback(block, version_heading, date_str)

\* variant: a block that is not found is created at the end of the document
UpdateLastUpdatedCreate(content, version_heading, date_str) ==
    LET m == FindVersionBlock(content, version_heading)
        block == Group(content, m)
        updated_block == StampedBlock(block, version_heading, date_str)
    IN IF ~m.found
       THEN [doc |-> content \o version_heading
                       \o <<NL, LUPrefix, SP>> \o date_str \o <<US, NL>>,
             changed |-> TRUE]
       ELSE IF updated_block = block THEN [doc |-> content, changed |-> FALSE]
       ELSE [doc |-> Take(content, m.start - 1) \o updated_block
                       \o Drop(content, m.end - 1),
             changed |-> TRUE]

\* variant: every located block is reported as changed
UpdateLastUpdatedEager(content, version_heading, date_str) ==
    LET m == FindVersionBlock(content, version_heading)
        block == Group(content, m)
        updated_block == StampedBlock(block, version_heading, date_str)
    IN IF ~m.found THEN [doc |-> content, changed |-> FALSE]
       ELSE [doc |-> Take(content, m.start - 1) \o updated_block
                       \o Drop(content, m.end - 1),
             changed |-> TRUE]

\* _update_last_updated(content, version_heading, date_str) -> (content, changed)
UpdateLastUpdated(content, version_heading, date_str) ==
    LET m == FindVersionBlock(content, version_heading)
        block == Group(content, m)
        updated_block == StampedBlock(block, version_heading, date_str)
    IN IF ~m.found THEN [doc |-> content, changed |-> FALSE]
       ELSE IF updated_block = block THEN [doc |-> content, changed |-> FALSE]
       ELSE [doc |-> Take(content, m.start - 1) \o updated_block
                       \o Drop(content, m.end - 1),
             changed |-> TRUE]


\* ------------------------------------------------------------------ categories
\* str.lower on a token: the tokens written with a capital letter
LowerTok(tok) ==
    CASE tok = "Fix" -> "fix"
      [] tok = "Feat" -> "feat"
      [] tok = "Add" -> "add"
      [] tok = "Big" -> "big"
      [] tok = "Old" -> "old"
      [] OTHER -> tok

Lower(t) == [i \in 1..Len(t) |-> LowerTok(t[i])]

\* str.split()[0]: the first maximal run of tokens that are not whitespace
FirstWord(t) ==
    LET u == LStrip(t)
        ws == {p \in 1..Len(u) : u[p] \in Whitespace}
    IN IF ws = {} THEN u ELSE Take(u, MinOf(ws) - 1)

\* _categorize(commit_title); the title is empty or holds a word, as git subjects do
Categorize(commit_title) ==
    LET title_lower == Lower(commit_title)
        first_word == IF title_lower = <<>> THEN <<>> ELSE FirstWord(title_lower)
    IN IF StartsWith(first_word, <<"feat">>) \/ Contains(title_lower, <<"feat", ":">>)
       THEN "feature"
       ELSE IF StartsWith(first_word, <<"fix">>) \/ Contains(title_lower, <<"fix", ":">>)
       THEN "fix"
       ELSE IF StartsWith(first_word, <<"chore">>)
               \/ Contains(title_lower, <<"chore", ":">>)
       THEN "change"
       ELSE IF \/ StartsWith(first_word, <<"refactor">>)
               \/ Contains(title_lower, <<"refactor", ":">>)
               \/ Contains(title_lower, <<"change">>)
       THEN "change"
       ELSE "change"

\* ------------------------------------------------------------------ inputs
V15 == <<"1.5">>

V14 == <<"1.4">>

\* manifest versions run_update may read (_current_version)
Versions == {V15, V14}

D1 == <<"2025-01-01">>

D2 == <<"2025-02-02">>

\* datetime.utcnow().date().isoformat() of a run
RunDates == {D2}

\* the dates of stamp updates: the date a block already carries and a later one
StampDates == {D1, D2}

ABC1 == <<"ABC-1">>

\* "ABC-12": ABC-1 is a proper prefix of it
ABC12 == <<"ABC-1", "2">>

Ctx(id, cat, title, author, date) ==
    [ticket_id |-> id, category |-> cat, title |-> title, author |-> author, date |-> date]

Contexts ==
    {Ctx(ABC1, "feature", <<"Add">>, <<"Al">>, D1),
     Ctx(ABC1, "feature", <<"Add", SP, "more", SP>>, <<"Al">>, D2),
     Ctx(ABC12, "feature", <<"Big">>, <<SP>>, D1),
     Ctx(ABC1, "fix", <<"Add">>, <<"Al">>, D1)}

EOld == RenderEntry(Ctx(ABC1, "feature", <<"Old">>, <<"Al">>, D1))

EBig == RenderEntry(Ctx(ABC12, "feature", <<"Big">>, <<"Bo">>, D1))

EFix == RenderEntry(Ctx(ABC12, "fix", <<"Fix">>, <<"Bo">>, D1))

Stamp(d) == <<LUPrefix, SP>> \o d \o <<US>>

\* a text from its lines, every line ended by a newline
Text(lines) == IF lines = <<>> THEN <<>> ELSE JoinLines(lines) \o <<NL>>

\* a legacy (heading-delimited) block for version 1.4
Legacy14 ==
    <<H2 \o V14, Stamp(D1), <<>>, SECTION_HEADINGS["fix"], <<>>, EFix>>

\* the bare title
DocTitle == Text(<<TITLE>>)

\* an unreleased placeholder ahead of a released block
DocUnreleased ==
    Text(<<TITLE, <<>>, UNRELEASED, Stamp(D1), <<>>,
           SECTION_HEADINGS["feature"], <<>>, EOld, <<>>>> \o Legacy14)

\* a released block only: the new block goes after the title
DocOld == Text(<<TITLE, <<>>>> \o Legacy14)

\* the title is not the first line of the file
DocLeadBlank == Text(<<<<>>, TITLE, <<>>>> \o Legacy14)

\* headings of which "## 1.5" is a proper prefix
DocPrefix ==
    Text(<<TITLE, <<>>, H2 \o V15 \o <<"0">>, Stamp(D1), <<>>,
           H2 \o V15 \o <<"-rc1">>, Stamp(D1), <<>>>> \o Legacy14)

\* "### 1.5": the heading "## 1.5" is a fragment of a sub-heading line
DocSub ==
    Text(<<TITLE, <<>>, H2 \o <<"2.0">>, Stamp(D1), <<>>,
           <<HASH>> \o H2 \o V15, <<"notes">>, <<>>>> \o Legacy14)

\* the version heading is the last line and no newline ends the file
DocLastLine == JoinLines(<<TITLE, <<>>>> \o Legacy14 \o <<<<>>, H2 \o V15>>)

\* the version heading directly followed by the next version heading
DocAdjacent == Text(<<TITLE, <<>>, H2 \o V15>> \o Legacy14)

\* a legacy block for 1.5 with entries, ahead of 1.4
DocLegacy15 ==
    Text(<<TITLE, <<>>, H2 \o V15, Stamp(D1), <<>>,
           SECTION_HEADINGS["feature"], <<>>, EBig, EOld, <<>>,
           SECTION_HEADINGS["fix"], <<>>,
           SECTION_HEADINGS["change"], <<>>>> \o Legacy14)

\* a legacy block for 1.5 that carries no last-updated line
DocNoStamp ==
    Text(<<TITLE, <<>>, H2 \o V15, <<>>,
           SECTION_HEADINGS["feature"], <<>>, EOld, <<>>>> \o Legacy14)

InitDocs ==
    {<<>>, DocTitle, DocUnreleased, DocOld, DocLeadBlank, DocPrefix, DocSub,
     DocLastLine, DocAdjacent, DocLegacy15, DocNoStamp}

\* ------------------------------------------------------------------ state machine
NoCall ==
    [op |-> "none", heading |-> <<>>, date |-> <<>>, category |-> "", entry |-> <<>>,
     ticket_id |-> <<>>, match |-> NoMatch, result |-> FALSE, path |-> ""]

RTIdle == [phase |-> "idle", v |-> <<>>, d |-> <<>>, s |-> EmptySections,
           block |-> <<>>, parsed |-> [version |-> <<>>, date |-> <<>>,
                                       sections |-> EmptySections]]

CZIdle == [phase |-> "idle", title |-> <<>>, category |-> ""]

\* the local variables of run_update and the files and repository around it
RunIdle ==
    [pc |-> "idle", runs |-> 0, exists |-> FALSE, file |-> <<>>, dry_run |-> FALSE,
     use_ai |-> FALSE, forced |-> <<>>, env_title |-> <<>>, git_missing |-> FALSE,
     log |-> <<>>, today |-> <<>>, jira |-> "bare", text |-> <<>>, created |-> FALSE,
     candidates |-> <<>>, existing_ids |-> {}, ticket_id |-> <<>>,
     commit_title |-> <<>>, author |-> <<>>, contexts |-> <<>>, idx |-> 1,
     changes_made |-> FALSE, entry_changed |-> FALSE, date_changed |-> FALSE,
     last_entry |-> <<>>, path |-> "", skip |-> FALSE, avail |-> FALSE,
     branch |-> FALSE, events |-> <<>>]

\* run_update line 240: version_heading = f"## {version}"
VersionHeading == H2 \o version

Init ==
    /\ doc \in InitDocs
    /\ pre = doc
    /\ call = NoCall
    /\ prevCall = NoCall
    /\ version \in Versions
    /\ fresh = FALSE
    /\ nops = 0
    /\ rt = RTIdle
    /\ cz = CZIdle
    /\ run = RunIdle

\* run_update line 243: _ensure_version_block(changelog_text, version_heading, date_str)
Ensure(d) ==
    LET r == EnsureVersionBlock(doc, VersionHeading, d)
    IN /\ nops < MaxOps
       /\ doc' = r.doc
       /\ pre' = doc
       /\ call' = [NoCall EXCEPT !.op = "ensure", !.heading = VersionHeading, !.date = d,
                                 !.match = FindVersionBlock(doc, VersionHeading),
                                 !.result = r.created, !.path = r.path]
       /\ prevCall' = call
       /\ fresh' = r.created
       /\ nops' = nops + 1
       /\ UNCHANGED <<version, rt, cz, run>>

\* run_update lines 309-322: one pass of the loop over contexts
Upsert(ctx) ==
    LET heading == SECTION_HEADINGS[ctx.category]
        entry == RenderEntry(ctx)
        r == UpsertEntryForVersion(doc, VersionHeading, heading, entry, ctx.ticket_id)
    IN /\ nops < MaxOps
       /\ doc' = r.doc
       /\ pre' = doc
       /\ call' = [NoCall EXCEPT !.op = "upsert", !.heading = VersionHeading,
                                 !.category = ctx.category, !.entry = entry,
                                 !.ticket_id = ctx.ticket_id,
                                 !.match = FindVersionBlock(doc, VersionHeading),
                                 !.result = r.changed]
       /\ prevCall' = call
       /\ nops' = nops + 1
       /\ UNCHANGED <<version, fresh, rt, cz, run>>

\* run_update line 324: _update_last_updated(changelog_updated, version_heading, date_str)
UpdateStamp(d) ==
    LET r == UpdateLastUpdated(doc, VersionHeading, d)
    IN /\ nops < MaxOps
       /\ doc' = r.doc
       /\ pre' = doc
       /\ call' = [NoCall EXCEPT !.op = "stamp", !.heading = VersionHeading, !.date = d,
                                 !.match = FindVersionBlock(doc, VersionHeading),
                                 !.result = r.changed]
       /\ prevCall' = call
       /\ nops' = nops + 1
       /\ UNCHANGED <<version, fresh, rt, cz, run>>

Next ==
    \/ \E d \in RunDates : Ensure(d)
    \/ \E ctx \in Contexts : Upsert(ctx)
    \/ \E d \in StampDates : UpdateStamp(d)

Spec == Init /\ [][Next]_vars

\* ------------------------------------------------------------------ round trip
V15rc == <<"1.5", "-rc1">>

RTVersions == {V15, V15rc}

RTDates == {D1, D2}

\* entry lines: a rendered entry, an indented line, a line that looks like a heading
RTLines == {EOld, <<SP, SP, "-", SP, "sub">>, H3 \o <<"Note">>}

SeqsUpTo(S, n) == UNION {[1..k -> S] : k \in 0..n}

RTSections ==
    {s \in [KeySet -> SeqsUpTo(RTLines, MaxRTEntries)] :
        Len(s["feature"]) + Len(s["fix"]) + Len(s["change"]) <= MaxRTEntries}

InitRT ==
    /\ doc = <<>>
    /\ pre = <<>>
    /\ call = NoCall
    /\ prevCall = NoCall
    /\ version = V15
    /\ fresh = FALSE
    /\ nops = 0
    /\ cz = CZIdle
    /\ run = RunIdle
    /\ \E v \in RTVersions, d \in RTDates, s \in RTSections :
          rt = [RTIdle EXCEPT !.phase = "input", !.v = v, !.d = d, !.s = s]

\* _render_version_block(v, d, s)
RTRender ==
    /\ rt.phase = "input"
    /\ rt' = [rt EXCEPT !.phase = "rendered",
                        !.block = RenderVersionBlock(rt.v, rt.d, rt.s)]
    /\ UNCHANGED <<doc, pre, call, prevCall, version, fresh, nops, cz, run>>

\* _parse_version_block(block)
RTParse ==
    /\ rt.phase = "rendered"
    /\ rt' = [rt EXCEPT !.phase = "parsed", !.parsed = ParseVersionBlock(rt.block)]
    /\ UNCHANGED <<doc, pre, call, prevCall, version, fresh, nops, cz, run>>

NextRT == RTRender \/ RTParse

SpecRT == InitRT /\ [][NextRT]_vars

\* ------------------------------------------------------------------ legacy blocks
LegacyLines == {EOld, EFix}

LegacySections ==
    {s \in [KeySet -> SeqsUpTo(LegacyLines, MaxRTEntries)] :
        Len(s["feature"]) + Len(s["fix"]) + Len(s["change"]) <= MaxRTEntries}

\* a heading-delimited block as a hand-kept changelog has it: the three headings in
\* order, each followed by its entry lines, with or without a blank line after a
\* heading (gap) and between the sections (sep)
LegacyBlock(v, d, s, gap, sep) ==
    LET Section(k, last) ==
            <<SECTION_HEADINGS[k]>>
            \o (IF gap[k] THEN <<<<>>>> ELSE <<>>)
            \o s[k]
            \o (IF sep /\ ~last THEN <<<<>>>> ELSE <<>>)
    IN JoinLines(<<H2 \o v, Stamp(d), <<>>>>
                 \o Section("feature", FALSE) \o Section("fix", FALSE)
                 \o Section("change", TRUE))

InitLegacy ==
    /\ doc = <<>>
    /\ pre = <<>>
    /\ call = NoCall
    /\ prevCall = NoCall
    /\ version = V15
    /\ fresh = FALSE
    /\ nops = 0
    /\ cz = CZIdle
    /\ run = RunIdle
    /\ \E s \in LegacySections, gap \in [KeySet -> BOOLEAN], sep \in BOOLEAN :
          rt = [RTIdle EXCEPT !.phase = "rendered", !.v = V15, !.d = D1, !.s = s,
                              !.block = LegacyBlock(V15, D1, s, gap, sep)]

\* a legacy block is read by _parse_version_block
SpecLegacy == InitLegacy /\ [][RTParse]_vars


\* ------------------------------------------------------------------ categorisation of subjects
\* the words of commit subjects, cut where the code's prefix and substring tests cut
Words ==
    {<<"feat", ":">>, <<"feat", "ure">>, <<"de", "feat", ":">>, <<"Fix">>, <<"fix", ":">>,
     <<"pre", "fix", ":">>, <<"chore", ":">>, <<"refactor">>, <<"ex", "change">>,
     <<"update">>}

RECURSIVE JoinWords(_)
JoinWords(ws) ==
    IF ws = <<>> THEN <<>>
    ELSE IF Len(ws) = 1 THEN ws[1]
    ELSE ws[1] \o <<SP>> \o JoinWords(Tail(ws))

\* commit subjects: git log --pretty=%s gives an empty line or words with single spaces
Subjects == {JoinWords(ws) : ws \in SeqsUpTo(Words, MaxWords)}

InitCat ==
    /\ doc = <<>>
    /\ pre = <<>>
    /\ call = NoCall
    /\ prevCall = NoCall
    /\ version = V15
    /\ fresh = FALSE
    /\ nops = 0
    /\ rt = RTIdle
    /\ run = RunIdle
    /\ \E t \in Subjects : cz = [CZIdle EXCEPT !.phase = "input", !.title = t]

\* _categorize(commit_title)
CategorizeSubject ==
    /\ cz.phase = "input"
    /\ cz' = [cz EXCEPT !.phase = "done", !.category = Categorize(cz.title)]
    /\ UNCHANGED <<doc, pre, call, prevCall, version, fresh, nops, rt, run>>

NextCat == CategorizeSubject

SpecCat == InitCat /\ [][NextCat]_vars

\* ------------------------------------------------------------------ identifiers and history
\* tokens that match [A-Z][A-Z0-9]+-\d, and tokens of digits that extend such a match
TicketHeads == {"ABC-1", "XY-9"}

DigitTokens == {"0", "2"}

\* tokens of letters and digits only
AlnumTokens == {"a1b2c3d", "b2c3d4e", "c3d4e5f", "d4e5f6a", "e4", "NOREF"} \cup DigitTokens

\* the end of the longest run of tokens of set S that starts at p (p - 1 if none)
RECURSIVE RunEnd(_, _, _)
RunEnd(t, p, S) == IF p <= Len(t) /\ t[p] \in S THEN RunEnd(t, p + 1, S) ELSE p - 1

\* TICKET_PATTERN.search(text).group(1), <<>> when nothing matches
TicketSearch(text) ==
    LET ps == {p \in 1..Len(text) : text[p] \in TicketHeads}
    IN IF ps = {} THEN <<>>
       ELSE SubSeq(text, MinOf(ps), RunEnd(text, MinOf(ps) + 1, DigitTokens))

\* the first match among the candidate texts, <<>> when none matches
RECURSIVE FirstTicket(_)
FirstTicket(candidates) ==
    IF candidates = <<>> THEN <<>>
    ELSE IF TicketSearch(candidates[1]) # <<>> THEN TicketSearch(candidates[1])
    ELSE FirstTicket(Tail(candidates))

\* variant: an override without a match falls through to the candidate texts
DetectTicketIdFallThrough(forced_ticket, candidates) ==
    IF TicketSearch(forced_ticket) # <<>> THEN TicketSearch(forced_ticket)
    ELSE FirstTicket(candidates)

\* _detect_ticket_id(forced_ticket, candidates); <<>> stands for None
DetectTicketId(forced_ticket, candidates) ==
    IF forced_ticket # <<>> THEN TicketSearch(forced_ticket)
    ELSE FirstTicket(candidates)

\* _extract_existing_ids(content): the matches of CHANGE-[A-Za-z0-9]+
ExtractExistingIds(content) ==
    {SubSeq(content, p, RunEnd(content, p + 1, AlnumTokens)) :
        p \in {q \in 1..(Len(content) - 1) :
                  content[q] = "CHANGE-" /\ content[q + 1] \in AlnumTokens}}

\* _short_sha(full_sha): the first seven characters, one token of a hash
ShortSha(full_sha) == IF full_sha = <<>> THEN <<"nohash">> ELSE Take(full_sha, 1)

\* _categorize_from_labels(labels); "" stands for None
RECURSIVE CategorizeFromLabels(_)
CategorizeFromLabels(labels) ==
    IF labels = <<>> THEN ""
    ELSE LET normalized == Lower(labels[1])
         IN IF Contains(normalized, <<"bug">>) \/ StartsWith(normalized, <<"fix">>)
            THEN "fix"
            ELSE IF Contains(normalized, <<"feat", "ure">>)
                    \/ StartsWith(normalized, <<"feat">>)
            THEN "feature"
            ELSE IF \E tok \in {"chore", "maintenance", "refactor", "doc", "change",
                                "improv", "enhanc"} : Contains(normalized, <<tok>>)
            THEN "change"
            ELSE CategorizeFromLabels(Tail(labels))

\* ai_helper.enhance_description / suggest_category as the run sees them: the service
\* answers every request the same way
AIEnhance(title) == <<"Polished", SP>> \o title

AICategory == "feature"

\* _resolve_category(commit_title, use_ai, ticket_title, ticket_labels, ...)
ResolveCategory(commit_title, use_ai, ticket_title, ticket_labels) ==
    LET base == IF CategorizeFromLabels(ticket_labels) # ""
                THEN CategorizeFromLabels(ticket_labels)
                ELSE Categorize(commit_title)
        has_context == ticket_title # <<>> \/ commit_title # <<>> \/ ticket_labels # <<>>
    IN IF use_ai /\ has_context /\ AICategory \in KeySet THEN AICategory ELSE base

\* the title of a replayed commit: subject.strip() or full_sha[:12]
ReplayTitle(commit, use_ai) ==
    LET title == IF Strip(commit.subject) # <<>> THEN Strip(commit.subject)
                 ELSE commit.sha
    IN IF use_ai THEN AIEnhance(title) ELSE title

\* variant: a recorded commit is skipped and the walk goes on
RECURSIVE ReplayWalkSkipping(_, _, _)
ReplayWalkSkipping(log, existing_ids, use_ai) ==
    IF log = <<>> THEN <<>>
    ELSE LET c == log[1]
             ticket_id == <<"CHANGE-">> \o Take(c.sha, 1)
         IN (IF ticket_id \in existing_ids THEN <<>>
             ELSE <<[ticket_id |-> ticket_id, category |-> "change",
                     title |-> Strip(c.subject), author |-> Strip(c.author),
                     date |-> c.date]>>)
            \o ReplayWalkSkipping(Tail(log), existing_ids, use_ai)

\* _contexts_from_commit_history lines 577-607: the walk over the log, newest first
RECURSIVE ReplayWalk(_, _, _)
ReplayWalk(log, existing_ids, use_ai) ==
    IF log = <<>> THEN <<>>
    ELSE LET c == log[1]
             ticket_id == <<"CHANGE-">> \o ShortSha(c.sha)
         IN IF ticket_id \in existing_ids THEN <<>>
            ELSE <<[ticket_id |-> ticket_id,
                    category |-> ResolveCategory(c.subject, use_ai,
                                                 ReplayTitle(c, use_ai), <<>>),
                    title |-> ReplayTitle(c, use_ai),
                    author |-> IF Strip(c.author) = <<>> THEN <<"Unknown">>
                               ELSE Strip(c.author),
                    date |-> c.date]>>
                 \o ReplayWalk(Tail(log), existing_ids, use_ai)

Reverse(s) == [i \in 1..Len(s) |-> s[Len(s) + 1 - i]]

\* variant: the contexts are returned in the order of the walk, newest first
ContextsFromCommitHistoryNewestFirst(existing_ids, use_ai, log) ==
    ReplayWalk(log, existing_ids, use_ai)

\* _contexts_from_commit_history(existing_ids, use_ai); log is <<>> when git gives nothing
ContextsFromCommitHistory(existing_ids, use_ai, log) ==
    Reverse(ReplayWalk(log, existing_ids, use_ai))

\* _first_non_empty(values)
RECURSIVE FirstNonEmpty(_)
FirstNonEmpty(values) ==
    IF values = <<>> THEN <<>>
    ELSE IF Strip(values[1]) # <<>> THEN Strip(values[1])
    ELSE FirstNonEmpty(Tail(values))

\* ------------------------------------------------------------------ orchestrator
\* the bootstrap template changelog_template.md: a document that holds the title only
TemplateText == Text(<<TITLE>>)

\* a commit of git log: %H (first 7, next 5, remaining characters), %s, %an, %cs
Commit(short, subject, author, date) ==
    [sha |-> <<short, "e4f5a", "rest">>, subject |-> subject, author |-> author,
     date |-> date]

CommitA == Commit("a1b2c3d", <<"feat", ":", SP, "add">>, <<"Al">>, D1)

CommitB == Commit("b2c3d4e", <<"Fix", SP, "login", SP, "ABC-1", "2">>, <<"Bo">>, D1)

CommitC == Commit("c3d4e5f", <<"chore", ":", SP, "tidy">>, <<SP>>, D2)

\* the short hashes of the commits the tool makes, one after the other
BotShas == <<"d4e5f6a", "e5f6a7b", "f6a7b8c", "a7b8c9d">>

\* GIT_AUTHOR_NAME of the commit when CI_COMMIT_AUTHOR is unset
BotAuthor == <<"SmartChangelog", SP, "Bot">>

\* _maybe_commit_and_push: the n-th commit the tool makes
BotCommit(date, n) ==
    Commit(BotShas[IF n < Len(BotShas) THEN n ELSE Len(BotShas)],
           <<"chore", ":", SP, "update", SP, "change", "log", SP, "[skip", SP, "ci]">>,
           BotAuthor, date)

\* the commits of the log that the tool made
BotCommits(log) == {i \in 1..Len(log) : log[i].author = BotAuthor}

\* git log, newest first; <<>> when git log fails (no repository, no commit)
Logs == {<<>>, <<CommitA>>, <<CommitC, CommitA>>, <<CommitB, CommitA>>}

\* --ticket values: none, two identifiers in other text, no identifier
ForcedTickets == {<<>>, <<"x", "ABC-1", "2", SP, "XY-9">>, <<"bogus">>}

\* the first context variable that is set (CI_COMMIT_TITLE, CI_COMMIT_MESSAGE, ...):
\* none, a title that holds an identifier, a commit message of two lines
EnvTitles == {<<>>, <<"ABC-1", SP, "Add">>, <<"Add", NL, "body">>}

\* a changelog whose 1.4 block records the commit c3d4e5f and no older commit
DocReplayed ==
    Text(<<TITLE, <<>>, H2 \o V14, Stamp(D1), <<>>, SECTION_HEADINGS["change"], <<>>,
           RenderEntry(Ctx(<<"CHANGE-", "c3d4e5f">>, "change",
                           <<"chore", ":", SP, "tidy">>, <<"Unknown">>, D2))>>)

\* CHANGELOG.md at the start: absent (exists = FALSE) or one of these
RunFiles == {DocOld, DocLegacy15, DocReplayed}

\* jira_client.get_ticket_summary: the bare answer of an unconfigured or failing
\* service, or a ticket with a summary and labels
JiraSummary(kind, ticket_id) ==
    IF kind = "bare" THEN [title |-> ticket_id, labels |-> <<>>]
    ELSE [title |-> <<"Login", SP, "bug">>, labels |-> <<<<"bug">>>>]

\* an effect outside the process, with the step that caused it
Ev(op, ok) == [op |-> op, ok |-> ok, pc |-> run.pc]

Quiet == UNCHANGED <<doc, pre, call, prevCall, version, fresh, nops, rt, cz>>

InitRun ==
    /\ doc = <<>>
    /\ pre = <<>>
    /\ call = NoCall
    /\ prevCall = NoCall
    /\ version = V15
    /\ fresh = FALSE
    /\ nops = 0
    /\ rt = RTIdle
    /\ cz = CZIdle
    /\ \E f \in RunFiles \cup {<<>>}, dry \in BOOLEAN, ai \in BOOLEAN,
          forced \in ForcedTickets, et \in EnvTitles, gm \in BOOLEAN, log \in Logs,
          d \in RunDates, j \in {"bare", "full"} :
          /\ gm => log = <<>>
          /\ run = [RunIdle EXCEPT !.pc = "start", !.runs = 1, !.exists = (f # <<>>),
                                   !.file = f, !.dry_run = dry, !.use_ai = ai,
                                   !.forced = forced, !.env_title = et,
                                   !.git_missing = gm, !.log = log, !.today = d,
                                   !.jira = j]

\* _read_changelog(path): a missing file is created from the template at once
ReadChangelog ==
    /\ run.pc = "start"
    /\ run' = IF run.exists
              THEN [run EXCEPT !.pc = "loaded", !.text = run.file]
              ELSE [run EXCEPT !.pc = "loaded", !.text = TemplateText,
                               !.file = TemplateText, !.exists = TRUE,
                               !.events = Append(@, Ev("write", TRUE))]
    /\ Quiet

\* run_update line 243
EnsureBlock ==
    LET r == EnsureVersionBlock(run.text, VersionHeading, run.today)
    IN /\ run.pc = "loaded"
       /\ run' = [run EXCEPT !.pc = "ensured", !.text = r.doc, !.created = r.created]
       /\ Quiet

\* _gather_context_strings(): the environment title, the message of HEAD, the branch
GatherContextStrings ==
    (IF run.env_title # <<>> THEN <<run.env_title>> ELSE <<>>)
    \o (IF run.log # <<>> /\ Strip(run.log[1].subject) # <<>>
        THEN <<Strip(run.log[1].subject)>> ELSE <<>>)
    \o (IF run.log # <<>> THEN <<<<"main">>>> ELSE <<>>)

\* _detect_author(): git log -1 --pretty=%an or "Unknown"
DetectAuthor ==
    IF run.log # <<>> /\ Strip(run.log[1].author) # <<>>
    THEN Strip(run.log[1].author) ELSE <<"Unknown">>

\* run_update lines 245-250; a git executable that cannot be run makes subprocess.run
\* raise FileNotFoundError, which _git_output does not catch
Resolve ==
    LET candidates == GatherContextStrings
        ticket_id == DetectTicketId(run.forced, candidates)
    IN /\ run.pc = "ensured"
       /\ run' = IF run.git_missing
                 THEN [run EXCEPT !.pc = "raised"]
                 ELSE [run EXCEPT !.pc = IF ticket_id # <<>> THEN "ticket" ELSE "history",
                                  !.candidates = candidates,
                                  !.existing_ids = ExtractExistingIds(run.text),
                                  !.ticket_id = ticket_id,
                                  !.commit_title =
                                      IF run.log # <<>> THEN Strip(run.log[1].subject)
                                      ELSE <<>>,
                                  !.author = DetectAuthor]
       /\ Quiet

\* run_update lines 305-307: the contexts are fixed, the merge loop starts
ToMerge(path, contexts, events) ==
    [run EXCEPT !.pc = "merge", !.path = path, !.contexts = contexts, !.idx = 1,
                !.changes_made = run.created, !.events = events]

\* run_update lines 254-275: the ticket path
TicketPath ==
    LET jira_summary == JiraSummary(run.jira, run.ticket_id)
        found == IF jira_summary.title # <<>> THEN jira_summary.title
                 ELSE IF run.commit_title # <<>> THEN run.commit_title
                 ELSE run.ticket_id
        title == IF run.use_ai THEN AIEnhance(found) ELSE found
        category == ResolveCategory(run.commit_title, run.use_ai, title,
                                    jira_summary.labels)
    IN /\ run.pc = "ticket"
       /\ run' = ToMerge("ticket", <<Ctx(run.ticket_id, category, title, run.author, run.today)>>,
                         Append(run.events, Ev("lookup", TRUE)))
       /\ Quiet

\* run_update lines 277-279: replay of the commit history
HistoryPath ==
    LET fallback_contexts ==
            ContextsFromCommitHistory(run.existing_ids, run.use_ai, run.log)
    IN /\ run.pc = "history"
       /\ run' = IF fallback_contexts = <<>>
                 THEN [run EXCEPT !.pc = "fallback"]
                 ELSE ToMerge("history", fallback_contexts, run.events)
       /\ Quiet

\* variant: the sentinel whatever the repository says
FallbackTicketIdentifierNoRef == <<"CHANGE-", "NOREF">>

\* _fallback_ticket_identifier(): git rev-parse --short HEAD
FallbackTicketIdentifier ==
    IF run.log # <<>> THEN <<"CHANGE-">> \o ShortSha(run.log[1].sha)
    ELSE <<"CHANGE-", "NOREF">>

\* run_update lines 280-303: the single fallback context
FallbackPath ==
    LET found == IF run.commit_title # <<>> THEN run.commit_title
                 ELSE IF FirstNonEmpty(run.candidates) # <<>>
                 THEN FirstNonEmpty(run.candidates)
                 ELSE <<"Unspecified", SP, "change">>
        fallback_title == IF run.use_ai THEN AIEnhance(found) ELSE found
        fallback_category ==
            ResolveCategory(run.commit_title, run.use_ai, fallback_title, <<>>)
    IN /\ run.pc = "fallback"
       /\ run' = ToMerge("fallback",
                         <<Ctx(FallbackTicketIdentifier, fallback_category,
                               fallback_title, run.author, run.today)>>, run.events)
       /\ Quiet

\* variant: the file is saved after every upsert
MergeEntrySaving ==
    LET ctx == run.contexts[run.idx]
        entry == RenderEntry(ctx)
        r == UpsertEntryForVersion(run.text, VersionHeading,
                                   SECTION_HEADINGS[ctx.category], entry, ctx.ticket_id)
    IN /\ run.pc = "merge"
       /\ run.idx <= Len(run.contexts)
       /\ run' = [run EXCEPT !.text = r.doc, !.idx = @ + 1,
                             !.existing_ids = @ \cup {ctx.ticket_id},
                             !.changes_made = @ \/ r.changed,
                             !.entry_changed = @ \/ r.changed,
                             !.last_entry = entry, !.file = r.doc,
                             !.events = Append(@, Ev("write", TRUE))]
       /\ Quiet

\* run_update lines 309-322: one pass of the loop over the contexts
MergeEntry ==
    LET ctx == run.contexts[run.idx]
        entry == RenderEntry(ctx)
        r == UpsertEntryForVersion(run.text, VersionHeading,
                                   SECTION_HEADINGS[ctx.category], entry, ctx.ticket_id)
    IN /\ run.pc = "merge"
       /\ run.idx <= Len(run.contexts)
       /\ run' = [run EXCEPT !.text = r.doc, !.idx = @ + 1,
                             !.existing_ids = @ \cup {ctx.ticket_id},
                             !.changes_made = @ \/ r.changed,
                             !.entry_changed = @ \/ r.changed,
                             !.last_entry = entry]
       /\ Quiet

\* run_update lines 324-325
StampStep ==
    LET r == UpdateLastUpdated(run.text, VersionHeading, run.today)
    IN /\ run.pc = "merge"
       /\ run.idx > Len(run.contexts)
       /\ run' = [run EXCEPT !.pc = "merged", !.text = r.doc,
                             !.changes_made = @ \/ r.changed,
                             !.date_changed = r.changed]
       /\ Quiet

\* variant: the document is written back even when nothing changed
FinishAlwaysWrites ==
    /\ run.pc = "merged"
    /\ run' = IF run.dry_run /\ run.changes_made
              THEN [run EXCEPT !.pc = "previewed",
                               !.events = Append(@, Ev("print", TRUE))]
              ELSE [run EXCEPT !.pc = IF ~run.changes_made THEN "unchanged"
                                      ELSE IF run.contexts # <<>> THEN "commit"
                                      ELSE "done",
                               !.file = run.text,
                               !.events = Append(@, Ev("write", TRUE))]
    /\ Quiet

\* run_update lines 327-340: nothing to do, preview, or write and hand over
Finish ==
    /\ run.pc = "merged"
    /\ run' = IF ~run.changes_made THEN [run EXCEPT !.pc = "unchanged"]
              ELSE IF run.dry_run
              THEN [run EXCEPT !.pc = "previewed",
                               !.events = Append(@, Ev("print", TRUE))]
              ELSE [run EXCEPT !.pc = IF run.contexts # <<>> THEN "commit" ELSE "done",
                               !.file = run.text,
                               !.events = Append(@, Ev("write", TRUE))]
    /\ Quiet

\* _maybe_commit_and_push lines 676-682: the skip flag, then git --version
CommitStart ==
    /\ run.pc = "commit"
    /\ \E skip \in BOOLEAN, avail \in BOOLEAN :
          run' = [run EXCEPT !.skip = skip, !.avail = avail,
                             !.pc = IF skip \/ ~avail THEN "done" ELSE "cp_add"]
    /\ Quiet

\* lines 684-688: git add
CommitAdd ==
    /\ run.pc = "cp_add"
    /\ \E ok \in BOOLEAN :
          run' = [run EXCEPT !.events = Append(@, Ev("add", ok)),
                             !.pc = IF ok THEN "cp_diff" ELSE "done"]
    /\ Quiet

\* variant: the commit is attempted whatever the staged diff is
CommitDiffIgnored ==
    /\ run.pc = "cp_diff"
    /\ \E staged \in BOOLEAN :
          run' = [run EXCEPT !.events = Append(@, Ev("diff", staged)),
                             !.pc = "cp_commit"]
    /\ Quiet

\* lines 690-693: git diff --cached --quiet; ok stands for a non-zero return code
CommitDiff ==
    /\ run.pc = "cp_diff"
    /\ \E staged \in BOOLEAN :
          run' = [run EXCEPT !.events = Append(@, Ev("diff", staged)),
                             !.pc = IF staged THEN "cp_commit" ELSE "done"]
    /\ Quiet

\* lines 695-707: git commit; a commit that succeeds becomes the head of the log
CommitCommit ==
    /\ run.pc = "cp_commit"
    /\ \E ok \in BOOLEAN :
          run' = [run EXCEPT !.events = Append(@, Ev("commit", ok)),
                             !.log = IF ok THEN <<BotCommit(run.today,
                                                  Cardinality(BotCommits(@)) + 1)>> \o @
                                     ELSE @,
                             !.pc = IF ok THEN "cp_push" ELSE "done"]
    /\ Quiet

\* lines 709-718: _current_branch(), then git push
CommitPush ==
    /\ run.pc = "cp_push"
    /\ \E branch \in BOOLEAN, ok \in BOOLEAN :
          run' = [run EXCEPT !.branch = branch,
                             !.events = IF branch THEN Append(@, Ev("push", ok)) ELSE @,
                             !.pc = "done"]
    /\ Quiet

Terminal == {"unchanged", "previewed", "done", "raised"}

\* the command is invoked again: same flags and environment, the file and the
\* repository as the run before left them
StartRun ==
    /\ run.pc \in Terminal
    /\ run.runs < MaxRuns
    /\ run' = [RunIdle EXCEPT !.pc = "start", !.runs = run.runs + 1,
                              !.exists = run.exists, !.file = run.file,
                              !.dry_run = run.dry_run, !.use_ai = run.use_ai,
                              !.forced = run.forced, !.env_title = run.env_title,
                              !.git_missing = run.git_missing, !.log = run.log,
                              !.today = run.today, !.jira = run.jira]
    /\ Quiet

NextRun ==
    \/ ReadChangelog
    \/ EnsureBlock
    \/ Resolve
    \/ TicketPath
    \/ HistoryPath
    \/ FallbackPath
    \/ MergeEntry
    \/ StampStep
    \/ Finish
    \/ CommitStart
    \/ CommitAdd
    \/ CommitDiff
    \/ CommitCommit
    \/ CommitPush
    \/ StartRun

SpecRun == InitRun /\ [][NextRun]_vars

\* ------------------------------------------------------------------ claim helpers
\* the lines of a text (str.splitlines)
LinesOf(t) == SplitLines(t)

\* position of the first token of line i
RECURSIVE LineStart(_, _)
LineStart(lines, i) ==
    IF i <= 1 THEN 1 ELSE LineStart(lines, i - 1) + Len(lines[i - 1]) + 1

\* indexes of the lines exactly equal to the heading
HeadingLines(t, heading) == {i \in 1..Len(LinesOf(t)) : LinesOf(t)[i] = heading}

\* position of the first line after line i that begins "## ", or the end of the text
NextVersionHeading(t, i) ==
    LET lines == LinesOf(t)
        js == {j \in (i + 1)..Len(lines) : StartsWith(lines[j], H2)}
    IN IF js = {} THEN Len(t) + 1 ELSE LineStart(lines, MinOf(js))

\* the entry list of a category in the block the code locates
EntriesOf(t, heading, k) ==
    ParseVersionBlock(Group(t, FindVersionBlock(t, heading))).sections[k]

\* the line is an entry of exactly this identifier: "(<id>," stands in it
HasId(line, id) == Contains(line, <<"(">> \o id \o <<",">>)

SameCall(a, b) ==
    /\ a.op = b.op
    /\ a.heading = b.heading
    /\ a.category = b.category
    /\ a.entry = b.entry
    /\ a.ticket_id = b.ticket_id

C2_RoundTrip ==
    rt.phase = "parsed"
        => rt.parsed = [version |-> rt.v, date |-> rt.d, sections |-> rt.s]

\* C2 witness: a parsed rendering of two entries in one category, the first of
\* which looks like a heading.
C2_Witness ==
    /\ rt.phase = "parsed"
    /\ \E k \in KeySet : Len(rt.s[k]) = 2 /\ rt.s[k][1] = H3 \o <<"Note">>
    /\ rt.parsed.sections = rt.s

\* C3 (as claimed): when the target list holds an entry of the identifier that
\* differs from the new line, upsert puts the new line at that index, keeps
\* the length and every other index, and returns changed=true.
C3_ReplaceInPlace ==
    (call.op = "upsert" /\ call.match.found)
        => LET old == EntriesOf(pre, call.heading, call.category)
               new == EntriesOf(doc, call.heading, call.category)
               is == {i \in 1..Len(old) : HasId(old[i], call.ticket_id)}
           IN (is # {} /\ old[MinOf(is)] # call.entry)
                  => /\ call.result = TRUE
                     /\ new = [old EXCEPT ![MinOf(is)] = call.entry]

\* C4 (as claimed): when the target list holds no entry of the identifier,
\* upsert places the new line at index 0 ahead of all previous entries, in
\* their previous order, and returns changed=true.
C4_InsertAtFront ==
    (call.op = "upsert" /\ call.match.found)
        => LET old == EntriesOf(pre, call.heading, call.category)
               new == EntriesOf(doc, call.heading, call.category)
           IN (\A i \in 1..Len(old) : ~HasId(old[i], call.ticket_id))
                  => /\ call.result = TRUE
                     /\ new = <<call.entry>> \o old

\* C5 (as claimed): after any upserts into a freshly created block, every
\* category list holds at most one entry containing "(" + identifier.
C5_UniquePerCategory ==
    fresh =>
        \A k \in KeySet : \A id \in {ABC1, ABC12} :
            LET es == EntriesOf(doc, VersionHeading, k)
            IN Cardinality({i \in 1..Len(es) : Contains(es[i], <<"(">> \o id)}) <= 1

\* C6 (as claimed): when a line of the document equals the version heading,
\* wherever it stands, ensureVersionBlock returns the document unchanged with
\* created=false.
C6_EnsureKeepsExisting ==
    (call.op = "ensure" /\ HeadingLines(pre, call.heading) # {})
        => (call.result = FALSE /\ doc = pre)

\* C7 (as claimed): when no line equals the version heading, ensureVersionBlock
\* returns created=true, the document then holds exactly one such line, the
\* block is stamped with the date and has three empty categories, it is found,
\* and a second call returns created=false.
C7_EnsureCreates ==
    (call.op = "ensure" /\ HeadingLines(pre, call.heading) = {})
        => LET m == FindVersionBlock(doc, call.heading)
               parsed == ParseVersionBlock(Group(doc, m))
           IN /\ call.result = TRUE
              /\ Cardinality(HeadingLines(doc, call.heading)) = 1
              /\ m.found
              /\ parsed.date = call.date
              /\ parsed.sections = EmptySections
              /\ ~EnsureVersionBlock(doc, call.heading, call.date).created

\* position after the first line that begins "# " (its newline included), 0 if none
TitleLineEnd(t) ==
    LET lines == LinesOf(t)
        is == {i \in 1..Len(lines) : StartsWith(lines[i], <<HASH, SP>>)}
        e == LineStart(lines, MinOf(is) + 1) - 1
    IN IF is = {} THEN 0 ELSE IF e > Len(t) THEN Len(t) ELSE e

\* C8 (as claimed): a created block (a) replaces the unreleased placeholder,
\* (b) else is appended to an empty or title-only document, (c) else stands
\* immediately after the title heading line of every document that has one.
C8_Placement ==
    (call.op = "ensure" /\ call.result = TRUE)
        => LET block == NewBlock(call.heading, call.date)
               um == FindUnreleased(pre)
               te == TitleLineEnd(pre)
           IN IF um.found
              THEN doc = Take(pre, um.start - 1) \o block
                         \o LStripSet(Drop(pre, um.end - 1), {NL})
              ELSE IF Strip(pre) = <<>> THEN doc = block
              ELSE IF Strip(pre) = TITLE THEN doc = RStrip(pre) \o <<NL, NL>> \o block
              ELSE te # 0 => doc = Take(pre, te) \o <<NL>> \o block \o Drop(pre, te)

\* C9 (as claimed): a span is returned only for a line exactly equal to the
\* version heading; it starts at that line and ends just before the next line
\* beginning "## ", or at the end of the document.
C9_FindExactLine ==
    (call.op # "none" /\ call.match.found)
        => \E i \in HeadingLines(pre, call.heading) :
              /\ call.match.start = LineStart(LinesOf(pre), i)
              /\ call.match.end \in {NextVersionHeading(pre, i) - 1,
                                     NextVersionHeading(pre, i)}

\* C10 (as claimed): an upsert leaves the text before the version block and
\* the text from the next version heading on (every other block) byte-identical.
C10_FrameOutsideBlock ==
    (call.op = "upsert" /\ HeadingLines(pre, call.heading) # {})
        => LET i == MinOf(HeadingLines(pre, call.heading))
               s == LineStart(LinesOf(pre), i)
               n == NextVersionHeading(pre, i)
           IN /\ Take(doc, s - 1) = Take(pre, s - 1)
              /\ EndsWith(doc, Drop(pre, n - 1))

\* the block of the heading as a reader delimits it: from the first line equal to the
\* heading up to the next line that begins "## "
NaturalBlock(t, heading) ==
    LET i == MinOf(HeadingLines(t, heading))
    IN SubSeq(t, LineStart(LinesOf(t), i), NextVersionHeading(t, i) - 1)

\* the lines with one line inserted after line i
InsertLineAfter(lines, i, line) ==
    SubSeq(lines, 1, i) \o <<line>> \o SubSeq(lines, i + 1, Len(lines))

C13_StampInsert ==
    (call.op = "stamp" /\ call.match.found
       /\ HeadingLines(pre, call.heading) # {}
       /\ ~Contains(NaturalBlock(pre, call.heading), <<LUPrefix>>))
        => /\ call.result
           /\ LinesOf(doc) = InsertLineAfter(LinesOf(pre),
                                 MinOf(HeadingLines(pre, call.heading)),
                                 <<LUPrefix, SP>> \o call.date \o <<US>>)

\* the category the first token alone decides, "" when it begins with no known prefix
ByFirstToken(title) ==
    LET w == FirstWord(Lower(title))
    IN IF StartsWith(w, <<"feat">>) THEN "feature"
       ELSE IF StartsWith(w, <<"fix">>) THEN "fix"
       ELSE IF StartsWith(w, <<"chore">>) \/ StartsWith(w, <<"refactor">>) THEN "change"
       ELSE ""

\* the category of the substring checks alone
BySubstring(title) ==
    LET t == Lower(title)
    IN IF Contains(t, <<"feat", ":">>) THEN "feature"
       ELSE IF Contains(t, <<"fix", ":">>) THEN "fix"
       ELSE "change"

\* C14: the first whitespace-delimited token of the lower-cased subject decides the
\* category (feat -> feature, fix -> fix, chore or refactor -> change); the substring
\* checks decide only when the first token begins with none of these prefixes, and
\* every other subject gives change.
C14_FirstTokenDecides ==
    cz.phase = "done"
        => cz.category = IF ByFirstToken(cz.title) # ""
                         THEN ByFirstToken(cz.title)
                         ELSE BySubstring(cz.title)

\* the steps of a run after the identifier is resolved
Resolved ==
    {"ticket", "history", "fallback", "merge", "merged", "unchanged", "previewed",
     "commit", "cp_add", "cp_diff", "cp_commit", "cp_push", "done"}

\* the effects of the kinds ops that the run has caused so far
EventsOf(ops) == {i \in 1..Len(run.events) : run.events[i].op \in ops}

\* s is an identifier: a ticket head followed by digits only
IsTicket(s) ==
    /\ s # <<>>
    /\ s[1] \in TicketHeads
    /\ \A i \in 2..Len(s) : s[i] \in DigitTokens

\* s is the leftmost, longest identifier that stands in text
IsFirstTicketOf(s, text) ==
    \E p \in 1..Len(text) :
        /\ \A q \in 1..(p - 1) : text[q] \notin TicketHeads
        /\ IsTicket(s)
        /\ p + Len(s) - 1 <= Len(text)
        /\ SubSeq(text, p, p + Len(s) - 1) = s
        /\ (p + Len(s) <= Len(text) => text[p + Len(s)] \notin DigitTokens)

\* C15: with a forced override the identifier is the first match inside the override
\* or none; the candidate texts are not consulted, and without a match the run takes
\* the history or fallback path and never looks a ticket up.
C15_ForcedOverride ==
    (run.pc \in Resolved /\ run.forced # <<>>)
        => /\ IF \E p \in 1..Len(run.forced) : run.forced[p] \in TicketHeads
              THEN IsFirstTicketOf(run.ticket_id, run.forced)
              ELSE run.ticket_id = <<>>
           /\ run.ticket_id = <<>>
                 => /\ run.pc # "ticket"
                    /\ run.path \in {"", "history", "fallback"}
                    /\ EventsOf({"lookup"}) = {}

\* an override without an identifier, a candidate text with one, and the run has
\* merged the entries of the history or fallback path
C15_Witness ==
    /\ run.pc = "merged"
    /\ run.forced # <<>> /\ run.ticket_id = <<>>
    /\ \E i \in 1..Len(run.candidates) : TicketSearch(run.candidates[i]) # <<>>
    /\ run.path \in {"history", "fallback"}

\* C16: without an identifier and without a context from history exactly one fallback
\* context is built, its identifier is CHANGE-<short hash> or CHANGE-NOREF when there
\* is no revision, and no ticket is looked up.
C16_FallbackCascade ==
    /\ (run.pc = "fallback")
          => /\ run.ticket_id = <<>>
             /\ ContextsFromCommitHistory(run.existing_ids, run.use_ai, run.log) = <<>>
    /\ (run.path = "fallback")
          => /\ Len(run.contexts) = 1
             /\ EventsOf({"lookup"}) = {}
             /\ run.ticket_id = <<>>
             /\ (run.pc = "merge" /\ run.idx = 1)
                   => run.contexts[1].ticket_id =
                         IF run.log = <<>> THEN <<"CHANGE-", "NOREF">>
                         ELSE <<"CHANGE-", run.log[1].sha[1]>>
    /\ (run.pc = "merge" /\ run.idx = 1 /\ run.path = "history")
          => run.contexts # <<>>

\* the fallback context of a run whose head revision is already recorded
C16_Witness ==
    /\ run.path = "fallback" /\ run.pc = "merge" /\ run.idx = 1
    /\ run.log # <<>>
    /\ run.contexts[1].ticket_id \in run.existing_ids

\* the run is past the decision of lines 327-340
Decided ==
    {"unchanged", "previewed", "commit", "cp_add", "cp_diff", "cp_commit", "cp_push",
     "done"}

C18_DryRunNoWrite ==
    run.dry_run => EventsOf({"write", "add", "diff", "commit", "push"}) = {}

Before(i, op, ok) ==
    \E j \in 1..(i - 1) : run.events[j].op = op /\ run.events[j].ok = ok

\* C20: the document is written before the collaborator is called; a commit follows
\* a successful add and a non-empty staged diff, a push follows a successful commit
\* and a known branch; with the skip flag or without git nothing is run; a failing
\* add, commit or push ends the procedure and the run still completes.
C20_CommitProtocol ==
    /\ \A i \in EventsOf({"add", "diff", "commit", "push"}) :
          /\ ~run.dry_run
          /\ \E j \in 1..(i - 1) :
                run.events[j].op = "write" /\ run.events[j].pc = "merged"
          /\ run.file = run.text
    /\ \A i \in EventsOf({"commit"}) : Before(i, "add", TRUE) /\ Before(i, "diff", TRUE)
    /\ \A i \in EventsOf({"push"}) : Before(i, "commit", TRUE) /\ run.branch
    /\ (run.pc \in Decided /\ (run.skip \/ ~run.avail))
          => EventsOf({"add", "diff", "commit", "push"}) = {}
    /\ \A i \in EventsOf({"add", "commit", "push"}) :
          ~run.events[i].ok => (i = Len(run.events) /\ run.pc = "done")

\* add and commit succeeded, the branch was known and the push failed
C20_Witness ==
    /\ run.pc = "done"
    /\ run.events # <<>>
    /\ run.events[Len(run.events)].op = "push"
    /\ ~run.events[Len(run.events)].ok

\* the synthetic identifier of the i-th commit of the log
SyntheticId(i) == <<"CHANGE-", run.log[i].sha[1]>>

\* the first commit of the log whose synthetic identifier stands in the document,
\* one past the end of the log when there is none
StopPointOf(t) ==
    LET rec == {i \in 1..Len(run.log) : Contains(t, SyntheticId(i))}
    IN IF rec = {} THEN Len(run.log) + 1 ELSE MinOf(rec)

StopPoint == StopPointOf(run.text)

\* the history replay has just returned its contexts
Replayed == run.pc = "merge" /\ run.idx = 1 /\ run.path = "history"

\* C21: history replay walks the log newest first and stops at the first commit whose
\* identifier CHANGE-<short hash> the document already records: the contexts are
\* those of the commits before the stop point, none of them recorded, and no commit
\* at or after the stop point yields a context.
C21_ReplayStops ==
    Replayed
        => /\ Len(run.contexts) = StopPoint - 1
           /\ \A j \in 1..Len(run.contexts) :
                 /\ run.contexts[j].ticket_id = SyntheticId(StopPoint - j)
                 /\ ~Contains(run.text, run.contexts[j].ticket_id)

\* a replay that stopped inside the log: a new head commit over a recorded one, with
\* an older commit behind it that the document does not record
C21_Witness ==
    /\ Replayed
    /\ StopPoint >= 2
    /\ StopPoint < Len(run.log)
    /\ ~Contains(run.text, SyntheticId(Len(run.log)))
\* the document of a run before its first merge: the file as read, with the block of
\* the current version ensured
BeforeMerge == EnsureVersionBlock(run.file, VersionHeading, run.today).doc

\* the contexts of a category, last merged first
MergedOf(k) ==
    LET InK(c) == c.category = k
        news == SelectSeq(Reverse(run.contexts), InK)
    IN [m \in 1..Len(news) |-> RenderEntry(news[m])]

HistoryMerged == run.pc = "merged" /\ run.path = "history"

\* C22: after all contexts of one history replay are merged, the contexts taken newest
\* first are the commits of the log newest first, and the list of each category is the
\* new entries of that category, newest commit first, followed by the entries the
\* category had before the run.
C22_DisplayOrder ==
    HistoryMerged
        => /\ \A i \in 1..Len(run.contexts) :
                 Reverse(run.contexts)[i].ticket_id = SyntheticId(i)
           /\ \A k \in KeySet :
                 EntriesOf(run.text, VersionHeading, k)
                     = MergedOf(k) \o EntriesOf(BeforeMerge, VersionHeading, k)

\* two commits replayed into a category that already had entries
C22_Witness ==
    /\ HistoryMerged
    /\ \E k \in KeySet :
          /\ Len(MergedOf(k)) >= 2
          /\ EntriesOf(BeforeMerge, VersionHeading, k) # <<>>
\* C23: for a heading-delimited block, with or without blank lines between the
\* headings, parseVersionBlock gives each category exactly the non-blank lines that
\* stand between its heading line and the next heading line: no line under two
\* categories, no heading line as an entry.
C23_LegacySections ==
    rt.phase = "parsed" => \A k \in KeySet : rt.parsed.sections[k] = rt.s[k]
\* the context merged last and the suffix "(<identifier>, <author>, <date>)" of its entry
LastMerged == run.contexts[run.idx - 1]

EntrySuffix(ctx) ==
    <<"(">> \o ctx.ticket_id \o <<",", SP>>
    \o (IF Strip(ctx.author) = <<>> THEN <<"Unknown">> ELSE Strip(ctx.author))
    \o <<",", SP>> \o ctx.date \o <<")">>

\* C24: the entry rendered for a context is the one line
\* "- <title> (<identifier>, <author>, <date>)" with title and author trimmed and a
\* blank author shown as Unknown; it holds no line break whatever the title is.
C24_OneLineEntry ==
    (run.pc = "merge" /\ run.idx > 1)
        => /\ run.last_entry
                = <<"-", SP>> \o Strip(LastMerged.title) \o <<SP>> \o EntrySuffix(LastMerged)
           /\ ~Contains(run.last_entry, <<NL>>)
\* C25: when the git executable cannot be run or a git command fails, the queries give
\* their placeholders (author Unknown, identifier CHANGE-NOREF, empty commit title)
\* and the run completes without raising.
C25_VcsAbsenceNotFatal ==
    /\ run.pc # "raised"
    /\ (run.pc = "merge" /\ run.idx = 1 /\ run.log = <<>>)
          => /\ run.commit_title = <<>>
             /\ run.author = <<"Unknown">>
             /\ run.path = "fallback"
                   => run.contexts[1].ticket_id = <<"CHANGE-", "NOREF">>
\* the lines of a text that are entries of the identifier
EntryLinesOf(t, id) ==
    LET Is(line) == HasId(line, id)
    IN SelectSeq(LinesOf(t), Is)

\* C26: an upsert for one identifier leaves every entry of a different identifier as
\* it was, also when one identifier is a prefix of the other (ABC-1 and ABC-12).
C26_OtherEntriesKept ==
    call.op = "upsert"
        => \A id \in {ABC1, ABC12} \ {call.ticket_id} :
              EntryLinesOf(doc, id) = EntryLinesOf(pre, id)

\* C27: after any sequence of upserts into one block, here a block that the system
\* created itself, an identifier has an entry in at most one category of the block.
C27_OneCategoryPerId ==
    fresh =>
        \A id \in {ABC1, ABC12} :
            Cardinality({k \in KeySet :
                \E i \in 1..Len(EntriesOf(doc, VersionHeading, k)) :
                    HasId(EntriesOf(doc, VersionHeading, k)[i], id)}) <= 1
\* the repository holds no commit made by the tool: the log is the one the first run saw
LogAsGiven == BotCommits(run.log) = {}

\* C28: a second run on the document a first run produced, with the same flags,
\* environment, date and repository, ends Unchanged and writes nothing, whichever of
\* the ticket, history and fallback paths the runs take.
C28_SecondRunUnchanged ==
    (run.runs = 2 /\ run.pc \in Terminal /\ ~run.dry_run /\ ~run.git_missing /\ LogAsGiven)
        => /\ run.pc = "unchanged"
           /\ EventsOf({"write"}) = {}
\* the block of the current version as the code reads it
BlockOf(t) == ParseVersionBlock(Group(t, FindVersionBlock(t, VersionHeading)))

\* C29: an upsert into a category of a block that the system created changes the list
\* of that category only: the version label, the last-updated date and the lists of the
\* other two categories are as before.
C29_OnlyTargetList ==
    (call.op = "upsert" /\ fresh /\ call.match.found)
        => /\ BlockOf(doc).version = BlockOf(pre).version
           /\ BlockOf(doc).date = BlockOf(pre).date
           /\ \A k \in KeySet \ {call.category} :
                 BlockOf(doc).sections[k] = BlockOf(pre).sections[k]

\* an entry is inserted while another category of the created block holds one
C29_Witness ==
    /\ call.op = "upsert" /\ fresh /\ call.result
    /\ doc # pre
    /\ \E k \in KeySet \ {call.category} : BlockOf(pre).sections[k] # <<>>
\* C30: with commit and push enabled, no ticket identifier and a fixed date, the commit
\* that the tool makes is not turned into an entry by a later run, so that repeated
\* runs without new user commits come to end Unchanged.
C30_OwnCommitNoEntry ==
    \A j \in 1..Len(run.contexts) :
        \A i \in BotCommits(run.log) : run.contexts[j].ticket_id # SyntheticId(i)
====
